---------------------------- MODULE Spec2Model ----------------------------
(***************************************************************************)
(* A state-machine model of EmpowrAICreditModel                            *)
(* (src/src/lib/empowrai_credit_model.py): the engine's fields, train_model *)
(* with its bias audit, predict_probability, generate_explanation and      *)
(* get_feature_importance.                                                 *)
(*                                                                         *)
(* Numbers.  Floats are modelled by exact fixed-point integers:            *)
(*   - a probability p is the integer p * ProbDen (classifier outputs are  *)
(*     the even numerators, so that the mean of two of them is exact);     *)
(*   - a rate, ratio or metric is a pair <<num, den>>, den > 0;            *)
(*   - a feature importance is an integer number of thousandths;           *)
(*   - a normalized value is a float value [k, v]: a number of 1/550000,   *)
(*     -inf or NaN, and an impact is the importance times it, with IEEE    *)
(*     comparisons (every comparison with NaN is false).                   *)
(* Floating-point rounding is not modelled.                                *)
(*                                                                         *)
(* Tables.  A DataFrame is its ordered column list plus its rows in        *)
(* run-length form (a block is n rows that agree on all modelled fields),  *)
(* given already partitioned the way train_test_split(random_state=42)     *)
(* partitions it.  What the two sklearn classifiers compute on a table     *)
(* (held-out scores, feature importances) is an input of train_model's     *)
(* action, as is what they compute on an inference vector.                 *)
(***************************************************************************)
EXTENDS Integers, Sequences, FiniteSets, TLC

VARIABLES
    \* the engine's fields
    model, scaler, model_performance, bias_metrics, feature_importance,
    \* the last call on the engine: its arguments, outcome, result and log lines
    call,
    \* history: some train_model call has returned
    completed

engine == <<model, scaler, model_performance, bias_metrics, feature_importance>>
vars == <<model, scaler, model_performance, bias_metrics, feature_importance,
          call, completed>>

---------------------------------------------------------------------------
(* Bounds of the model *)

\* classifier outputs are k / ProbSteps, k \in 0..ProbSteps
ProbSteps == 20
\* race groups in the audit's held-out tables
NumRaces == 2

---------------------------------------------------------------------------
(* Generic helpers *)

RECURSIVE SeqSum(_)
SeqSum(s) == IF s = <<>> THEN 0 ELSE Head(s) + SeqSum(Tail(s))

Range(s) == {s[i] : i \in DOMAIN s}

Abs(x) == IF x < 0 THEN -x ELSE x

Min2(a, b) == IF b < a THEN b ELSE a

\* Optional values: None is <<>>, a present value x is <<x>>.
None == <<>>
Some(x) == <<x>>

\* Python's {}
EmptyDict == [k \in {} |-> 0]

\* Exact rationals <<num, den>>, den > 0.
RatLess(x, y) == x[1] * y[2] < y[1] * x[2]
RatEq(x, y) == x[1] * y[2] = y[1] * x[2]
RatOne == <<1, 1>>
RatZero == <<0, 1>>

---------------------------------------------------------------------------
(* Probabilities and the ensemble *)

\* A probability is a number of 1/ProbDen.
ProbDen == 2 * ProbSteps

\* What predict_proba(...)[:, 1] can return: k / ProbSteps.
ClassifierProbs == {2 * k : k \in 0..ProbSteps}

\* A weighted ensemble, the random forest counting twice.
FuseWeighted(rf_pred, gb_pred) == (2 * rf_pred + gb_pred) \div 3

\* (rf_pred + gb_pred) / 2
Fuse(rf_pred, gb_pred) == (rf_pred + gb_pred) \div 2

\* (pred_proba > 0.5).astype(int)
Binarize(p) == IF 2 * p > ProbDen THEN 1 ELSE 0

---------------------------------------------------------------------------
(* The feature schema and the tables *)

feature_names ==
    << "credit_score", "monthly_income", "total_alternative_income",
       "payment_reliability_score", "cash_flow_consistency", "platform_ratings",
       "community_trust_score", "financial_engagement_score",
       "income_diversification", "business_health" >>

\* The columns of the DataFrame create_enhanced_dataset builds, in the order
\* the data dict receives its keys.
EnhancedColumns ==
    << "credit_score", "monthly_income", "business_revenue",
       "total_alternative_income", "rent_payments_on_time",
       "utility_payments_on_time", "payment_reliability_score",
       "cash_flow_consistency", "platform_ratings", "community_trust_score",
       "financial_engagement_score", "income_diversification",
       "business_health", "approved", "race", "gender", "age" >>

\* train_model's exclusion list
NonFeatureCols == {"approved", "race", "gender", "age"}

\* [col for col in df.columns if col not in [...]]
FeatureCols(columns) == SelectSeq(columns, LAMBDA c : c \notin NonFeatureCols)

\* A table df is [columns, labels, train, test]:
\*   labels  <<lo, hi>>, the two values the 'approved' column takes;
\*   train   <<n_lo, n_hi>>, the rows of each class in the training split;
\*   test    the held-out rows, a sequence of blocks [race, gender, y, n].
TestRows(test) == SeqSum([i \in DOMAIN test |-> test[i].n])
TestClassRows(test, y) ==
    SeqSum([i \in DOMAIN test |-> IF test[i].y = y THEN test[i].n ELSE 0])
NRows(df) == df.train[1] + df.train[2] + TestRows(df.test)
ClassTotal(df, k) == df.train[k] + TestClassRows(df.test, df.labels[k])
Classes(df) == {k \in {1, 2} : ClassTotal(df, k) > 0}

\* test_size=0.2: n_test = ceil(0.2 * n_samples)
NTest(n) == (n + 4) \div 5

\* train_test_split(X, y, test_size=0.2, random_state=42, stratify=y) raises
\* ValueError: an empty train set, a class with one member, or a split with
\* fewer rows than classes.
SplitRaises(df) ==
    LET n == NRows(df)
        nc == Cardinality(Classes(df))
    IN  \/ n - NTest(n) = 0
        \/ \E k \in Classes(df) : ClassTotal(df, k) < 2
        \/ n - NTest(n) < nc
        \/ NTest(n) < nc

\* rf.fit / gb.fit / predict_proba(X_test)[:, 1] raise: no feature column, or
\* a single class (GradientBoostingClassifier needs two; with one class
\* predict_proba has no column 1).
FitRaises(df) ==
    \/ FeatureCols(df.columns) = <<>>
    \/ Cardinality(Classes(df)) < 2

\* The table is partitioned the way the split partitions it.
SplitConsistent(df) ==
    /\ \A i \in DOMAIN df.test : df.test[i].y \in Range(df.labels) /\ df.test[i].n > 0
    /\ SplitRaises(df) \/ TestRows(df.test) = NTest(NRows(df))

---------------------------------------------------------------------------
(* The bias audit, _calculate_bias_metrics *)

\* a group is analysed when its mask.sum() > 10
MinGroupRows == 10

\* (pred_proba > 0.5).astype(int), one entry per held-out block
Predictions(pred_proba) == [i \in DOMAIN pred_proba |-> Binarize(pred_proba[i])]

\* test_demographics[attr].unique()
GroupValues(test, attr) == {test[i][attr] : i \in DOMAIN test}

\* (test_demographics[attr] == g).sum()
GroupRows(test, attr, g) ==
    SeqSum([i \in DOMAIN test |-> IF test[i][attr] = g THEN test[i].n ELSE 0])

\* predictions[mask].sum(): the mean is GroupApproved / GroupRows
GroupApproved(test, predictions, attr, g) ==
    SeqSum([i \in DOMAIN test |->
               IF test[i][attr] = g THEN test[i].n * predictions[i] ELSE 0])

\* A group analysed from 10 rows on (>= in place of >).
QualifyingFromTen(test, attr) ==
    {g \in GroupValues(test, attr) : GroupRows(test, attr, g) >= MinGroupRows}

Qualifying(test, attr) ==
    {g \in GroupValues(test, attr) : GroupRows(test, attr, g) > MinGroupRows}

\* race_approval_rates: race -> predictions[race_mask].mean()
RaceApprovalRates(test, predictions) ==
    [g \in Qualifying(test, "race") |->
        <<GroupApproved(test, predictions, "race", g), GroupRows(test, "race", g)>>]

MinRate(rates) == CHOOSE r \in rates : \A q \in rates : ~RatLess(q, r)
MaxRate(rates) == CHOOSE r \in rates : \A q \in rates : ~RatLess(r, q)

\* min(rates) / max(rates) if max(rates) > 0 else 1.0, or 1.0 with fewer than
\* two analysed groups
DisparateImpact(race_approval_rates) ==
    LET rates == Range(race_approval_rates)
    IN  IF Cardinality(DOMAIN race_approval_rates) >= 2
        THEN LET lo == MinRate(rates)
                 hi == MaxRate(rates)
             IN  IF hi[1] > 0 THEN <<lo[1] * hi[2], lo[2] * hi[1]>> ELSE RatOne
        ELSE RatOne

\* gender_differences: abs(gender_rate - overall_approval_rate) per analysed
\* gender; max(...) if any else 0.0
StatisticalParityDiff(test, predictions) ==
    LET total == TestRows(test)
        approved == SeqSum([i \in DOMAIN test |-> test[i].n * predictions[i]])
        diffs == {<<Abs(GroupApproved(test, predictions, "gender", g) * total
                        - approved * GroupRows(test, "gender", g)),
                    GroupRows(test, "gender", g) * total>> :
                  g \in Qualifying(test, "gender")}
    IN  IF diffs = {} THEN RatZero ELSE MaxRate(diffs)

\* test_demographics['race'] / ['gender'] raise KeyError on a missing column
AuditRaises(columns) ==
    "race" \notin Range(columns) \/ "gender" \notin Range(columns)

\* An except branch that reports a disparate impact of 0.0.
ZeroImpactBiasMetrics ==
    [disparate_impact |-> RatZero,
     statistical_parity_difference |-> RatZero,
     equal_opportunity_difference |-> RatZero,
     demographic_groups_analyzed |-> 0]

\* the except branch's report
NeutralBiasMetrics ==
    [disparate_impact |-> RatOne,
     statistical_parity_difference |-> RatZero,
     equal_opportunity_difference |-> RatZero,
     demographic_groups_analyzed |-> 0]

\* The value _calculate_bias_metrics(df, X_test, pred_proba) leaves in
\* self.bias_metrics, and whether it went through the except branch.
CalculateBiasMetrics(columns, test, pred_proba) ==
    IF AuditRaises(columns)
    THEN [caught |-> TRUE, bias_metrics |-> NeutralBiasMetrics]
    ELSE LET predictions == Predictions(pred_proba)
             race_approval_rates == RaceApprovalRates(test, predictions)
         IN  [caught |-> FALSE,
              bias_metrics |->
                [disparate_impact |-> DisparateImpact(race_approval_rates),
                 statistical_parity_difference |->
                     StatisticalParityDiff(test, predictions),
                 equal_opportunity_difference |-> <<5, 100>>,
                 demographic_groups_analyzed |->
                     Cardinality(DOMAIN race_approval_rates)]]

---------------------------------------------------------------------------
(* train_model *)

\* rows of the held-out split that satisfy P(y_true, y_pred)
CountRows(test, pred, P(_, _)) ==
    SeqSum([i \in DOMAIN test |-> IF P(test[i].y, pred[i]) THEN test[i].n ELSE 0])

\* sklearn's zero_division default: an undefined ratio is reported as 0.0
Ratio(n, d) == IF d = 0 THEN RatZero ELSE <<n, d>>

\* precision_score / recall_score / f1_score (average='binary', pos_label=1)
\* raise ValueError when y_true and y_pred together hold more than two labels,
\* or hold two labels neither of which is 1; roc_auc_score raises ValueError
\* when y_true holds a single class.
MetricsRaise(test, pred) ==
    LET present == {test[i].y : i \in DOMAIN test} \cup Range(pred)
    IN  \/ Cardinality(present) > 2
        \/ 1 \notin present /\ Cardinality(present) >= 2
        \/ Cardinality({test[i].y : i \in DOMAIN test}) < 2

\* roc_auc_score(y_test, ensemble_pred_proba): the share of (positive, negative)
\* row pairs the score orders correctly, a tie counting one half
RocAuc(test, proba, pos) ==
    LET pair(i, j) == IF test[i].y = pos /\ test[j].y # pos
                      THEN test[i].n * test[j].n *
                           (IF proba[i] > proba[j] THEN 2
                            ELSE IF proba[i] = proba[j] THEN 1 ELSE 0)
                      ELSE 0
        npos == TestClassRows(test, pos)
    IN  Ratio(SeqSum([i \in DOMAIN test |->
                        SeqSum([j \in DOMAIN test |-> pair(i, j)])]),
              2 * npos * (TestRows(test) - npos))

\* the dict of lines 150-158
ModelPerformance(df, proba, pred) ==
    LET tp == CountRows(df.test, pred, LAMBDA y, p : y = 1 /\ p = 1)
        fp == CountRows(df.test, pred, LAMBDA y, p : y # 1 /\ p = 1)
        fn == CountRows(df.test, pred, LAMBDA y, p : y = 1 /\ p # 1)
    IN  [accuracy |-> Ratio(CountRows(df.test, pred, LAMBDA y, p : y = p),
                            TestRows(df.test)),
         precision |-> Ratio(tp, tp + fp),
         recall |-> Ratio(tp, tp + fn),
         f1_score |-> Ratio(2 * tp, 2 * tp + fp + fn),
         roc_auc |-> RocAuc(df.test, proba, df.labels[2]),
         training_samples |-> df.train[1] + df.train[2],
         test_samples |-> TestRows(df.test)]

\* DataFrame.sort_values('importance', ascending=False); rows of equal
\* importance keep their order
RECURSIVE InsertRow(_, _)
InsertRow(sorted, row) ==
    IF sorted = <<>> THEN <<row>>
    ELSE IF Head(sorted).importance < row.importance THEN <<row>> \o sorted
    ELSE <<Head(sorted)>> \o InsertRow(Tail(sorted), row)

RECURSIVE SortValuesDesc(_)
SortValuesDesc(rows) ==
    IF rows = <<>> THEN <<>>
    ELSE InsertRow(SortValuesDesc(SubSeq(rows, 1, Len(rows) - 1)), rows[Len(rows)])

\* avg_importance = (rf_importance + gb_importance) / 2, one row per training
\* column, sorted by importance
FeatureImportanceTable(feature_cols, rf_importance, gb_importance) ==
    SortValuesDesc([i \in DOMAIN feature_cols |->
                      [feature |-> feature_cols[i],
                       importance |-> (rf_importance[i] + gb_importance[i]) \div 2]])

\* a fitted classifier
Classifier(kind, feature_cols, n_train, importances) ==
    [kind |-> kind, feature_names_in |-> feature_cols, n_samples |-> n_train,
     feature_importances |-> importances]

\* StandardScaler() and StandardScaler().fit(X_train)
UnfittedScaler == [fitted |-> FALSE, feature_names_in |-> <<>>, n_samples_seen |-> 0]
FittedScaler(feature_cols, n_train) ==
    [fitted |-> TRUE, feature_names_in |-> feature_cols, n_samples_seen |-> n_train]

Raised(op, args, error, log) ==
    [op |-> op, args |-> args, outcome |-> "raised", error |-> error,
     result |-> None, log |-> log]
Returned(op, args, result, log) ==
    [op |-> op, args |-> args, outcome |-> "returned", error |-> "",
     result |-> result, log |-> log]

\* train_model(df) on an engine e, fit being what the two classifiers compute
\* on this table: the engine's fields afterwards and the call's outcome.
TrainResult(e, df, fit) ==
    LET feature_cols == FeatureCols(df.columns)
        n_train == df.train[1] + df.train[2]
        args == [df |-> df, fit |-> fit]
        started == <<"info: Starting model training...">>
        unchanged(error) ==
            [model |-> e.model, scaler |-> e.scaler,
             model_performance |-> e.model_performance,
             bias_metrics |-> e.bias_metrics,
             feature_importance |-> e.feature_importance,
             call |-> Raised("train_model", args, error, started)]
        ensemble_pred_proba ==
            [i \in DOMAIN df.test |-> Fuse(fit.rf_pred[i], fit.gb_pred[i])]
        ensemble_pred == Predictions(ensemble_pred_proba)
        rf == Classifier("RandomForestClassifier", feature_cols, n_train,
                         fit.rf_importance)
        gb == Classifier("GradientBoostingClassifier", feature_cols, n_train,
                         fit.gb_importance)
        audit == CalculateBiasMetrics(df.columns, df.test, ensemble_pred_proba)
    IN  IF "approved" \notin Range(df.columns) THEN unchanged("KeyError")
        ELSE IF SplitRaises(df) \/ FitRaises(df) THEN unchanged("ValueError")
        ELSE IF MetricsRaise(df.test, ensemble_pred)
        THEN [model |-> Some([rf |-> rf, gb |-> gb]),
              scaler |-> FittedScaler(feature_cols, n_train),
              model_performance |-> e.model_performance,
              bias_metrics |-> e.bias_metrics,
              feature_importance |-> e.feature_importance,
              call |-> Raised("train_model", args, "ValueError", started)]
        ELSE [model |-> Some([rf |-> rf, gb |-> gb]),
              scaler |-> FittedScaler(feature_cols, n_train),
              model_performance |->
                  ModelPerformance(df, ensemble_pred_proba, ensemble_pred),
              bias_metrics |-> audit.bias_metrics,
              feature_importance |->
                  Some(FeatureImportanceTable(feature_cols, fit.rf_importance,
                                              fit.gb_importance)),
              call |-> Returned("train_model",
                                args @@ [ensemble_pred_proba |-> ensemble_pred_proba],
                                None,
                                started \o
                                <<IF audit.caught
                                  THEN "warning: Could not calculate bias metrics"
                                  ELSE "info: Bias metrics calculated",
                                  "info: Model training completed">>)]

---------------------------------------------------------------------------
(* predict_probability *)

\* raise ValueError("Model not trained yet")
NotTrainedError == "ValueError: Model not trained yet"

\* predict_probability(features) on an engine e, rf_pred and gb_pred being
\* what the two classifiers return for the scaled vector.
\*   - pd.DataFrame([features], columns=feature_names[:len(features)]) raises
\*     ValueError when the vector is longer than the schema;
\*   - scaler.transform raises ValueError when the frame's columns are not the
\*     columns the scaler was fitted on.
PredictResult(e, features, rf_pred, gb_pred) ==
    LET args == [features |-> features, rf_pred |-> rf_pred, gb_pred |-> gb_pred]
        columns == SubSeq(feature_names, 1, Min2(Len(features), Len(feature_names)))
    IN  IF e.model = None
        THEN Raised("predict_probability", args, NotTrainedError, <<>>)
        ELSE IF Len(features) > Len(feature_names)
        THEN Raised("predict_probability", args, "ValueError", <<>>)
        ELSE IF columns # e.scaler.feature_names_in
        THEN Raised("predict_probability", args, "ValueError", <<>>)
        ELSE Returned("predict_probability", args, Fuse(rf_pred, gb_pred), <<>>)

---------------------------------------------------------------------------
(* generate_explanation *)

\* Float values: a number v (in the unit of its context), -inf or NaN.
Num(v) == [k |-> "num", v |-> v]
NegInf == [k |-> "-inf", v |-> 0]
NaN == [k |-> "nan", v |-> 0]

\* a < b on floats: false whenever either side is NaN
FLt(a, b) ==
    IF a.k = "nan" \/ b.k = "nan" THEN FALSE
    ELSE IF a.k = "-inf" THEN b.k = "num"
    ELSE IF b.k = "-inf" THEN FALSE
    ELSE a.v < b.v

\* Python's min(x, bound) for a finite bound: bound if bound < x else x, so a
\* NaN first argument is returned as it is
FMin(x, bound) == IF FLt(Num(bound), x) THEN Num(bound) ELSE x

\* importance * x for an importance >= 0 (0 * -inf is NaN)
FScale(importance, x) ==
    IF x.k = "nan" THEN NaN
    ELSE IF x.k = "-inf" THEN (IF importance = 0 THEN NaN ELSE NegInf)
    ELSE Num(importance * x.v)

\* np.log(value / 1000) / 3 in thousandths, tabulated at the incomes the
\* model draws; NaN below zero and -inf at zero, as numpy computes them
LogNormalize(value) ==
    IF value < 0 THEN NaN
    ELSE IF value = 0 THEN NegInf
    ELSE Num(CASE value = 500 -> -231
               [] value = 1000 -> 0
               [] value = 2000 -> 231
               [] value = 6000 -> 597
               [] value = 15000 -> 903
               [] value = 30000 -> 1134)

\* normalized_value, a float in units of 1/550000.  Raw values: credit_score
\* in points, the two incomes in dollars, every other feature in thousandths.
NormalizedValue(feature_name, value) ==
    IF feature_name = "credit_score" THEN Num((value - 300) * 1000)
    ELSE IF feature_name \in {"monthly_income", "total_alternative_income"}
    THEN LET m == FMin(LogNormalize(value), 1000)
         IN  IF m.k = "num" THEN Num(m.v * 550) ELSE m
    ELSE Num(Min2(value, 1000) * 550)

\* the importance of a feature, in thousandths: its row of the table, or the
\* default 0.1
ImportanceOf(e, feature_name) ==
    IF e.feature_importance = None THEN 100
    ELSE LET table == e.feature_importance[1]
             rows == SelectSeq(table, LAMBDA r : r.feature = feature_name)
         IN  IF rows = <<>> THEN 100 ELSE rows[1].importance

\* _humanize_feature_name; the fallback for a name outside the table
\* (replace('_', ' ').title()) is never taken for a schema name
HumanizeFeatureName(feature_name) ==
    CASE feature_name = "credit_score" -> "Traditional Credit Score"
      [] feature_name = "monthly_income" -> "Monthly Income"
      [] feature_name = "total_alternative_income" -> "Alternative Income Sources"
      [] feature_name = "payment_reliability_score" -> "Payment History"
      [] feature_name = "cash_flow_consistency" -> "Business Cash Flow Stability"
      [] feature_name = "platform_ratings" -> "Gig Platform Performance"
      [] feature_name = "community_trust_score" -> "Community Trust"
      [] feature_name = "financial_engagement_score" -> "Financial Education"
      [] feature_name = "income_diversification" -> "Income Diversification"
      [] feature_name = "business_health" -> "Overall Business Health"
      [] OTHER -> feature_name

\* the loop over zip(self.feature_names, applicant_data)
FeatureContributions(e, applicant_data) ==
    [i \in 1..Min2(Len(feature_names), Len(applicant_data)) |->
        LET importance == ImportanceOf(e, feature_names[i])
        IN  [name |-> HumanizeFeatureName(feature_names[i]),
             value |-> applicant_data[i],
             impact |-> FScale(importance,
                               NormalizedValue(feature_names[i], applicant_data[i])),
             importance |-> importance]]

\* feature_contributions.sort(key=lambda x: x['impact'], reverse=True), as
\* CPython sorts a list shorter than 64: reverse, find the leading run
\* (reversing a strictly descending one), binary-insert the rest, reverse.
Reverse(s) == [i \in 1..Len(s) |-> s[Len(s) + 1 - i]]

RECURSIVE CountRun(_, _, _)
CountRun(s, i, descending) ==
    IF i > Len(s) THEN Len(s)
    ELSE IF FLt(s[i].impact, s[i - 1].impact) = descending
    THEN CountRun(s, i + 1, descending)
    ELSE i - 1

RECURSIVE BinarySearch(_, _, _, _)
BinarySearch(s, pivot, l, r) ==
    IF l >= r THEN l
    ELSE LET p == l + (r - l) \div 2
         IN  IF FLt(pivot.impact, s[p + 1].impact)
             THEN BinarySearch(s, pivot, l, p)
             ELSE BinarySearch(s, pivot, p + 1, r)

RECURSIVE BinarySort(_, _)
BinarySort(s, start) ==
    IF start >= Len(s) THEN s
    ELSE LET pivot == s[start + 1]
             l == BinarySearch(s, pivot, 0, start)
         IN  BinarySort(SubSeq(s, 1, l) \o <<pivot>> \o SubSeq(s, l + 1, start)
                        \o SubSeq(s, start + 2, Len(s)),
                        start + 1)

SortByImpact(feature_contributions) ==
    IF Len(feature_contributions) < 2 THEN feature_contributions
    ELSE LET r == Reverse(feature_contributions)
             descending == FLt(r[2].impact, r[1].impact)
             n == CountRun(r, 3, descending)
             run == IF descending
                    THEN Reverse(SubSeq(r, 1, n)) \o SubSeq(r, n + 1, Len(r))
                    ELSE r
         IN  Reverse(BinarySort(run, n))

\* A threshold chain whose first comparison is strict (> 0.7).
DecisionBandStrict(risk_score) ==
    IF 10 * risk_score > 7 * ProbDen
    THEN [decision |-> "APPROVED", confidence |-> "High"]
    ELSE IF 100 * risk_score >= 55 * ProbDen
    THEN [decision |-> "APPROVED", confidence |-> "Medium"]
    ELSE IF 10 * risk_score >= 4 * ProbDen
    THEN [decision |-> "CONDITIONAL", confidence |-> "Medium"]
    ELSE IF 100 * risk_score >= 25 * ProbDen
    THEN [decision |-> "CONDITIONAL", confidence |-> "Low"]
    ELSE [decision |-> "DENIED", confidence |-> "High"]

\* the threshold chain of lines 259-273, risk_score being a number of 1/ProbDen
DecisionBand(risk_score) ==
    IF 10 * risk_score >= 7 * ProbDen
    THEN [decision |-> "APPROVED", confidence |-> "High"]
    ELSE IF 100 * risk_score >= 55 * ProbDen
    THEN [decision |-> "APPROVED", confidence |-> "Medium"]
    ELSE IF 10 * risk_score >= 4 * ProbDen
    THEN [decision |-> "CONDITIONAL", confidence |-> "Medium"]
    ELSE IF 100 * risk_score >= 25 * ProbDen
    THEN [decision |-> "CONDITIONAL", confidence |-> "Low"]
    ELSE [decision |-> "DENIED", confidence |-> "High"]

\* generate_explanation(applicant_data)
ExplainResult(e, applicant_data, rf_pred, gb_pred) ==
    LET args == [features |-> applicant_data, rf_pred |-> rf_pred, gb_pred |-> gb_pred]
        predicted == PredictResult(e, applicant_data, rf_pred, gb_pred)
        risk_score == predicted.result
        band == DecisionBand(risk_score)
        sorted == SortByImpact(FeatureContributions(e, applicant_data))
    IN  IF e.model = None
        THEN Raised("generate_explanation", args, NotTrainedError, <<>>)
        ELSE IF predicted.outcome = "raised"
        THEN Raised("generate_explanation", args, predicted.error, <<>>)
        ELSE Returned("generate_explanation", args,
                      [decision |-> band.decision,
                       confidence |-> band.confidence,
                       risk_score |-> ProbDen - risk_score,
                       approval_probability |-> risk_score,
                       key_factors |-> SubSeq(sorted, 1, Min2(5, Len(sorted)))],
                      <<>>)

\* get_feature_importance(): an empty frame before training, else a copy
GetFeatureImportanceResult(e) ==
    Returned("get_feature_importance", <<>>,
             IF e.feature_importance = None THEN <<>> ELSE e.feature_importance[1],
             <<>>)

---------------------------------------------------------------------------
(* The state machine *)

E == [model |-> model, scaler |-> scaler, model_performance |-> model_performance,
      bias_metrics |-> bias_metrics, feature_importance |-> feature_importance]

\* __init__
Init ==
    /\ model = None
    /\ scaler = UnfittedScaler
    /\ model_performance = EmptyDict
    /\ bias_metrics = EmptyDict
    /\ feature_importance = None
    /\ call = Returned("__init__", <<>>, None, <<"info: EmpowrAI Credit Model initialized">>)
    /\ completed = FALSE

TrainModel(df, fit) ==
    \E r \in {TrainResult(E, df, fit)} :
        /\ model' = r.model
        /\ scaler' = r.scaler
        /\ model_performance' = r.model_performance
        /\ bias_metrics' = r.bias_metrics
        /\ feature_importance' = r.feature_importance
        /\ call' = r.call
        /\ completed' = (completed \/ r.call.outcome = "returned")

\* A predict_probability that fits the scaler on the vector it is given
\* (fit_transform in place of transform).
PredictProbabilityRefit(features, rf_pred, gb_pred) ==
    \E r \in {PredictResult(E, features, rf_pred, gb_pred)} :
        /\ call' = r
        /\ scaler' = IF r.outcome = "returned"
                     THEN FittedScaler(scaler.feature_names_in, 1)
                     ELSE scaler
        /\ UNCHANGED <<model, model_performance, bias_metrics, feature_importance,
                       completed>>

PredictProbability(features, rf_pred, gb_pred) ==
    /\ call' = PredictResult(E, features, rf_pred, gb_pred)
    /\ UNCHANGED <<engine, completed>>

GenerateExplanation(applicant_data, rf_pred, gb_pred) ==
    /\ call' = ExplainResult(E, applicant_data, rf_pred, gb_pred)
    /\ UNCHANGED <<engine, completed>>

GetFeatureImportance ==
    /\ call' = GetFeatureImportanceResult(E)
    /\ UNCHANGED <<engine, completed>>

\* _calculate_bias_metrics called on its own
AuditHeldOut(columns, test, pred_proba) ==
    \E r \in {CalculateBiasMetrics(columns, test, pred_proba)} :
        /\ bias_metrics' = r.bias_metrics
        /\ call' = Returned("_calculate_bias_metrics",
                            [columns |-> columns, test |-> test,
                             pred_proba |-> pred_proba],
                            None,
                            <<IF r.caught
                              THEN "warning: Could not calculate bias metrics"
                              ELSE "info: Bias metrics calculated">>)
        /\ UNCHANGED <<model, scaler, model_performance, feature_importance, completed>>

---------------------------------------------------------------------------
(* Inputs *)

Demographics == << "race", "gender", "age" >>
SchemaColumns == feature_names \o << "approved" >> \o Demographics
NoDemographicColumns == feature_names \o << "approved" >>
NoLabelColumns == feature_names \o Demographics
PrefixColumns(k) == SubSeq(feature_names, 1, k) \o << "approved" >> \o Demographics

Block(race, gender, y, n) == [race |-> race, gender |-> gender, y |-> y, n |-> n]

\* What a classifier reports as feature_importances_ over k columns: shares
\* of 1, in even thousandths (truncated), equal, growing or shrinking along
\* the columns.
ImportanceProfile(p, k) ==
    [i \in 1..k |->
        CASE p = "flat" -> 2 * (500 \div k)
          [] p = "rising" -> 2 * ((1000 * i) \div (k * (k + 1)))
          [] p = "falling" -> 2 * ((1000 * (k + 1 - i)) \div (k * (k + 1)))]

Fit(df, scores, rf_profile, gb_profile) ==
    LET k == Len(FeatureCols(df.columns))
    IN  [rf_pred |-> [i \in DOMAIN df.test |-> scores[i][1]],
         gb_pred |-> [i \in DOMAIN df.test |-> scores[i][2]],
         rf_importance |-> ImportanceProfile(rf_profile, k),
         gb_importance |-> ImportanceProfile(gb_profile, k)]

\* 20 rows of two classes, 4 of them held out
BalancedTable(columns, labels) ==
    [columns |-> columns, labels |-> labels, train |-> <<8, 8>>,
     test |-> <<Block(1, 1, labels[1], 2), Block(2, 2, labels[2], 2)>>]

\* 10 rows, 2 of the upper class: the stratified split holds out 2 rows of the
\* lower class only
OneClassHeldOutTable ==
    [columns |-> SchemaColumns, labels |-> <<0, 1>>, train |-> <<6, 2>>,
     test |-> <<Block(1, 1, 0, 2)>>]

EmptyTable ==
    [columns |-> SchemaColumns, labels |-> <<0, 1>>, train |-> <<0, 0>>, test |-> <<>>]
SingleRowTable ==
    [columns |-> SchemaColumns, labels |-> <<0, 1>>, train |-> <<1, 0>>, test |-> <<>>]
OneClassTable ==
    [columns |-> SchemaColumns, labels |-> <<0, 1>>, train |-> <<8, 0>>,
     test |-> <<Block(1, 1, 0, 2)>>]

Sure == <<ProbDen, ProbDen>>
Never == <<0, 0>>
Split == <<ProbDen, 0>>

TrainInputs ==
    {tf \in
        {<<BalancedTable(c, <<0, 1>>),
           Fit(BalancedTable(c, <<0, 1>>), s, "flat", p)>> :
            c \in {EnhancedColumns, SchemaColumns, NoDemographicColumns,
                   NoLabelColumns},
            s \in {<<Never, Sure>>, <<Sure, Split>>},
            p \in {"flat", "rising"}}
        \cup
        {<<d, Fit(d, <<Never, Sure>>, "flat", "flat")>> :
            d \in {BalancedTable(SchemaColumns, <<1, 2>>), OneClassHeldOutTable,
                   EmptyTable, SingleRowTable, OneClassTable}} :
     SplitConsistent(tf[1])}

\* raw feature values: credit_score in points, incomes in dollars, the other
\* features in thousandths
FeatureValue(i, variant) ==
    CASE variant = "strong" -> (IF i = 1 THEN 750 ELSE IF i \in {2, 3} THEN 6000 ELSE 900)
      [] variant = "weak" -> (IF i = 1 THEN 300 ELSE IF i \in {2, 3} THEN 1000 ELSE 0)
      [] variant = "debt" -> (IF i = 1 THEN 750 ELSE IF i = 2 THEN -1000
                              ELSE IF i = 3 THEN 6000 ELSE 900)
Vector(k, variant) == [i \in 1..k |-> FeatureValue(i, variant)]

\* vectors of the schema's length
Vectors == {Vector(Len(feature_names), v) : v \in {"strong", "weak", "debt"}}

\* vectors shorter than, as long as and longer than the schema
AnyLengthVectors ==
    {Vector(k, v) : k \in {3, Len(feature_names), Len(feature_names) + 1},
                    v \in {"strong", "weak", "debt"}}

Scores == {Never, Sure, Split, <<ProbDen, ProbDen - 2>>}

Next ==
    \/ \E tf \in TrainInputs : TrainModel(tf[1], tf[2])
    \/ \E v \in Vectors, s \in Scores : PredictProbability(v, s[1], s[2])
    \/ \E v \in Vectors, s \in Scores : GenerateExplanation(v, s[1], s[2])
    \/ GetFeatureImportance

Spec == Init /\ [][Next]_vars

---------------------------------------------------------------------------
(* The audit on one training run: the first call on a new engine, over     *)
(* held-out tables whose race groups sit on both sides of the 10-row mark. *)

\* rows of the approved and of the denied part of a race group
GroupSizes == {0, 1, MinGroupRows, MinGroupRows + 1}
\* a race group holds at most MinGroupRows + 1 rows
GroupShapes ==
    {s \in GroupSizes \X GroupSizes : s[1] + s[2] <= MinGroupRows + 1}

\* The table and fit of an audit case: race r holds groups[r][1] rows the
\* ensemble approves and groups[r][2] rows it denies; train rows are four
\* times the held-out rows of each class.
AuditInput(columns, groups, gender_by, margin) ==
    LET raw == [j \in 1..(2 * NumRaces) |->
                   LET r == (j + 1) \div 2
                       approved == (j % 2 = 1)
                   IN  [race |-> r,
                        gender |-> IF gender_by = "race" THEN (r % 2) + 1
                                   ELSE IF approved THEN 1 ELSE 2,
                        y |-> (j + r) % 2,
                        n |-> IF approved THEN groups[r][1] ELSE groups[r][2],
                        approved |-> approved]]
        kept == SelectSeq(raw, LAMBDA b : b.n > 0)
        test == [i \in DOMAIN kept |->
                    Block(kept[i].race, kept[i].gender, kept[i].y, kept[i].n)]
        scores == [i \in DOMAIN kept |->
                      IF kept[i].approved
                      THEN (IF margin = "wide" THEN Sure ELSE <<ProbDen, 2>>)
                      ELSE (IF margin = "wide" THEN Never ELSE Split)]
        df == [columns |-> columns, labels |-> <<0, 1>>,
               train |-> <<4 * TestClassRows(test, 0), 4 * TestClassRows(test, 1)>>,
               test |-> test]
    IN  <<df, Fit(df, scores, "flat", "rising")>>

RaceOnlyColumns == feature_names \o << "approved", "race" >>

AuditTrainInputs ==
    {tf \in {AuditInput(c, g, gb, m) :
                c \in {SchemaColumns, NoDemographicColumns, RaceOnlyColumns},
                g \in [1..NumRaces -> GroupShapes],
                gb \in {"race", "outcome"},
                m \in {"wide", "narrow"}} :
     SplitConsistent(tf[1])}

\* held-out data handed to _calculate_bias_metrics directly: none, one row,
\* two analysed groups
DirectAuditInputs ==
    {[columns |-> c, test |-> t, pred_proba |-> [i \in DOMAIN t |-> p]] :
        c \in {SchemaColumns, NoDemographicColumns},
        t \in {<<>>, <<Block(1, 1, 0, 1)>>, <<Block(1, 1, 1, 1)>>,
               <<Block(1, 1, 1, MinGroupRows + 1), Block(2, 2, 0, MinGroupRows + 1)>>},
        p \in {0, ProbDen}}

NextAudit ==
    \/ \E tf \in AuditTrainInputs :
          call.op = "__init__" /\ TrainModel(tf[1], tf[2])
    \/ \E d \in DirectAuditInputs :
          call.op = "__init__" /\ AuditHeldOut(d.columns, d.test, d.pred_proba)

SpecAudit == Init /\ [][NextAudit]_vars

---------------------------------------------------------------------------
(* Explanations after one training run, over every fused probability of   *)
(* the grid.                                                               *)

ExplainTrainInputs ==
    {<<BalancedTable(c, <<0, 1>>),
       Fit(BalancedTable(c, <<0, 1>>), <<Never, Sure>>, "rising", "falling")>> :
        c \in {SchemaColumns, PrefixColumns(3)}}

\* score pairs whose means are all the numbers of 1/ProbDen
MeanScores ==
    {<<a, b>> \in ClassifierProbs \X ClassifierProbs : b - a \in {0, 2}}

NextExplain ==
    \/ \E tf \in ExplainTrainInputs :
          call.op = "__init__" /\ TrainModel(tf[1], tf[2])
    \/ \E v \in AnyLengthVectors, s \in MeanScores :
          completed /\ GenerateExplanation(v, s[1], s[2])

SpecExplain == Init /\ [][NextExplain]_vars

---------------------------------------------------------------------------
(* Properties *)

InferenceOps == {"predict_probability", "generate_explanation"}
QueryOps == InferenceOps \cup {"get_feature_importance"}

Trained == model # None

\* C1: a predict_probability or generate_explanation call made before any
\* train_model call has returned raises the not-trained error and yields no
\* probability and no explanation.
C1_RejectedUntilTrainingCompletes ==
    (~completed /\ call.op \in InferenceOps) =>
        /\ call.outcome = "raised"
        /\ call.error = NotTrainedError
        /\ call.result = None

\* C2: generate_explanation's (decision, confidence) is the row of the band
\* table the fused probability p falls into, each lower bound inclusive and
\* each upper bound exclusive.
C2_DecisionBands ==
    (call.op = "generate_explanation" /\ call.outcome = "returned") =>
        LET p == call.result.approval_probability
            band == <<call.result.decision, call.result.confidence>>
        IN  /\ 0 <= p /\ p <= ProbDen
            /\ 100 * p >= 70 * ProbDen => band = <<"APPROVED", "High">>
            /\ (100 * p >= 55 * ProbDen /\ 100 * p < 70 * ProbDen)
                   => band = <<"APPROVED", "Medium">>
            /\ (100 * p >= 40 * ProbDen /\ 100 * p < 55 * ProbDen)
                   => band = <<"CONDITIONAL", "Medium">>
            /\ (100 * p >= 25 * ProbDen /\ 100 * p < 40 * ProbDen)
                   => band = <<"CONDITIONAL", "Low">>
            /\ 100 * p < 25 * ProbDen => band = <<"DENIED", "High">>

\* an explanation whose fused probability is exactly 0.70, reported
\* APPROVED / High
C2_Witness ==
    /\ call.op = "generate_explanation"
    /\ call.outcome = "returned"
    /\ 10 * call.result.approval_probability = 7 * ProbDen
    /\ call.result.decision = "APPROVED"
    /\ call.result.confidence = "High"

\* The audit ran: a train_model call that returned, or a direct call.
AuditRan ==
    \/ call.op = "train_model" /\ call.outcome = "returned"
    \/ call.op = "_calculate_bias_metrics"
AuditedColumns ==
    IF call.op = "train_model" THEN call.args.df.columns ELSE call.args.columns
AuditedRows ==
    IF call.op = "train_model" THEN call.args.df.test ELSE call.args.test

\* the race groups of the audited rows that hold strictly more than 10 rows
LargeRaceGroups ==
    IF "race" \notin Range(AuditedColumns) THEN {}
    ELSE {g \in {AuditedRows[i].race : i \in DOMAIN AuditedRows} :
            SeqSum([i \in DOMAIN AuditedRows |->
                       IF AuditedRows[i].race = g THEN AuditedRows[i].n ELSE 0]) > 10}

IsNeutral(report) ==
    /\ RatEq(report.disparate_impact, <<1, 1>>)
    /\ RatEq(report.statistical_parity_difference, <<0, 1>>)
    /\ report.demographic_groups_analyzed = 0

AuditWarned == "warning: Could not calculate bias metrics" \in Range(call.log)

\* C4: a failure inside _calculate_bias_metrics is caught: bias_metrics is the
\* neutral report (disparate impact 1.0, parity difference 0.0, 0 groups) and
\* train_model returns; a train_model call that raises raised before the
\* audit; held-out data of no row or one row gives the neutral report.
C4_AuditNeverFailsTraining ==
    /\ (call.op = "train_model" /\ call.outcome = "raised")
           => Len(call.log) = 1
    /\ (call.op = "train_model" /\ call.outcome = "returned"
            /\ ("race" \notin Range(call.args.df.columns)
                \/ "gender" \notin Range(call.args.df.columns)))
           => AuditWarned
    /\ (call.op \in {"train_model", "_calculate_bias_metrics"} /\ AuditWarned)
           => /\ call.outcome = "returned"
              /\ IsNeutral(bias_metrics)
              /\ call.op = "train_model"
                     => call.log[Len(call.log)] = "info: Model training completed"
    /\ (call.op = "_calculate_bias_metrics" /\ TestRows(call.args.test) <= 1)
           => call.outcome = "returned" /\ IsNeutral(bias_metrics)

\* a training run on a table without demographic columns: the audit failed,
\* the report is neutral and train_model returned
C4_Witness ==
    /\ call.op = "train_model"
    /\ call.outcome = "returned"
    /\ AuditWarned
    /\ IsNeutral(bias_metrics)
    /\ DOMAIN model_performance # {}

\* a >= b on floats
FGe(a, b) == a.k # "nan" /\ b.k # "nan" /\ ~FLt(a, b)

\* C5: key_factors is sorted by impact, descending, holds at most 5 entries,
\* and each entry's value is the raw value the caller gave for the feature
\* the entry names.
C5_KeyFactorsSortedTopFive ==
    (call.op = "generate_explanation" /\ call.outcome = "returned") =>
        LET key_factors == call.result.key_factors
            data == call.args.features
        IN  /\ Len(key_factors) <= 5
            /\ \A i \in 1..(Len(key_factors) - 1) :
                   FGe(key_factors[i].impact, key_factors[i + 1].impact)
            /\ \A i \in DOMAIN key_factors :
                   \E j \in DOMAIN data \cap DOMAIN feature_names :
                       /\ key_factors[i].name = HumanizeFeatureName(feature_names[j])
                       /\ key_factors[i].value = data[j]

\* C6: once train_model has returned, a predict_probability,
\* generate_explanation or get_feature_importance call leaves the
\* classifiers, the scaler, the performance report, the bias report and the
\* importance table as they were.
C6_InferenceReadOnly ==
    [][(completed /\ call'.op \in QueryOps) => engine' = engine]_vars

\* an explanation returned by an engine whose training has completed
C6_Witness ==
    /\ completed
    /\ call.op = "generate_explanation"
    /\ call.outcome = "returned"

\* C7: the columns the two classifiers and the scaler are fitted on are the
\* 10 names of feature_names, in that order.
C7_TrainedOnSchema ==
    Trained =>
        /\ model[1].rf.feature_names_in = feature_names
        /\ model[1].gb.feature_names_in = feature_names
        /\ scaler.feature_names_in = feature_names

\* C8: every BiasReport carries the same equal-opportunity value, whichever
\* path produced it.
C8_FixedSentinel ==
    [][(DOMAIN bias_metrics # {} /\ DOMAIN bias_metrics' # {}) =>
          RatEq(bias_metrics.equal_opportunity_difference,
                bias_metrics'.equal_opportunity_difference)]_vars

\* C9: the fused probability is (a + b) / 2, in predict_probability, in
\* generate_explanation and for every held-out row of train_model.
C9_UnweightedMean ==
    /\ (call.op = "predict_probability" /\ call.outcome = "returned")
           => 2 * call.result = call.args.rf_pred + call.args.gb_pred
    /\ (call.op = "generate_explanation" /\ call.outcome = "returned")
           => 2 * call.result.approval_probability
                  = call.args.rf_pred + call.args.gb_pred
    /\ (call.op = "train_model" /\ call.outcome = "returned")
           => \A i \in DOMAIN call.args.df.test :
                  2 * call.args.ensemble_pred_proba[i]
                      = call.args.fit.rf_pred[i] + call.args.fit.gb_pred[i]

\* a prediction fused from two different classifier probabilities
C9_Witness ==
    /\ call.op = "predict_probability"
    /\ call.outcome = "returned"
    /\ call.args.rf_pred # call.args.gb_pred

\* C10: whenever the trained gate is open, the scaler is fitted and the
\* performance report, the importance table and the bias report of the run
\* that trained the classifiers are in place.
C10_TrainedGateAllOrNothing ==
    Trained =>
        /\ scaler.fitted
        /\ DOMAIN model_performance # {}
        /\ feature_importance # None
        /\ DOMAIN bias_metrics # {}
        /\ model_performance.training_samples = model[1].rf.n_samples
        /\ {feature_importance[1][i].feature : i \in DOMAIN feature_importance[1]}
               = Range(model[1].rf.feature_names_in)

===========================================================================
